---------------------------- MODULE Spec2Model ----------------------------
(***************************************************************************)
(* Model of raise (src/main.rs): the run-or-raise tool for Hyprland.       *)
(*                                                                         *)
(* Strings are tuples of one-character strings, so that split_once,        *)
(* starts_with, contains, ... are computed as the code computes them.      *)
(* Option<T> is a tuple of length 0 (None) or 1 (Some).                    *)
(***************************************************************************)
EXTENDS Integers, Sequences, FiniteSets, TLC

VARIABLES
    \* ---- one invocation of main ----
    pc,         \* position in main: "args", "build", "clients", "fallback",
                \*   "active", "dispatch", "exit", or "idle" in the other specs
    args,       \* the command line: [class, launch, matches (raw strings)]
    parsed,     \* Args.matches after argh applied parse_match_condition
    matchers,   \* the result of Args::build_matchers
    clientsOut, \* what `hyprctl clients -j` returned (the list snapshot)
    candidates, \* main's `candidates`
    activeOut,  \* what `hyprctl activewindow -j` returned (the focus snapshot)
    current,    \* the result of get_current_matching_window
    events,     \* every hyprctl process the invocation tried to run, in order
    exit,       \* how the process ended
    \* ---- parse_match_condition applied to one input ----
    p_field, p_method, p_pattern, p_raw, p_result,
    \* ---- MatchCondition::matches / the candidate filter on one window ----
    m_conds, m_client, m_each, m_all, m_done,
    \* ---- repeated invocations against one window manager ----
    w_windows, w_matchers, w_focused, w_hist, w_runs

mainVars  == <<pc, args, parsed, matchers, clientsOut, candidates, activeOut,
               current, events, exit>>
parseVars == <<p_field, p_method, p_pattern, p_raw, p_result>>
matchVars == <<m_conds, m_client, m_each, m_all, m_done>>
cycleVars == <<w_windows, w_matchers, w_focused, w_hist, w_runs>>
vars      == <<mainVars, parseVars, matchVars, cycleVars>>

---------------------------------------------------------------------------
(* Bounds *)
MaxWindows == 3     \* longest window list returned by `hyprctl clients -j`
MaxMatches == 1     \* most --match options on one command line

---------------------------------------------------------------------------
(* Option and Result *)
None       == <<>>
Some(v)    == <<v>>
IsSome(o)  == Len(o) = 1
Unwrap(o)  == o[1]

NoAlias    == <<>>
Ok(v)      == [ok |-> TRUE,  val |-> v,    kind |-> "Ok", text |-> NoAlias]
Err(k, t)  == [ok |-> FALSE, val |-> <<>>, kind |-> k,    text |-> t]

---------------------------------------------------------------------------
(* str primitives *)

\* index of the first occurrence of character ch in s, 0 when there is none
FirstIndex(s, ch) ==
    IF \E i \in 1..Len(s) : s[i] = ch
    THEN CHOOSE i \in 1..Len(s) : s[i] = ch /\ \A j \in 1..(i-1) : s[j] # ch
    ELSE 0

\* str::split_once(ch): None, or Some(<<before, after>>) around the first ch
SplitOnce(s, ch) ==
    LET i == FirstIndex(s, ch)
    IN  IF i = 0 THEN None
        ELSE Some(<<SubSeq(s, 1, i-1), SubSeq(s, i+1, Len(s))>>)

StartsWith(v, p) == Len(p) <= Len(v) /\ SubSeq(v, 1, Len(p)) = p
EndsWith(v, p)   == Len(p) <= Len(v) /\ SubSeq(v, Len(v)-Len(p)+1, Len(v)) = p
Contains(v, p)   == \E k \in 0..(Len(v)-Len(p)) : SubSeq(v, k+1, k+Len(p)) = p

---------------------------------------------------------------------------
(* The regex crate, for the patterns built from literal characters, the    *)
(* assertions ^ and $, and the group opener "(" (never closed here, which  *)
(* Regex::new rejects).                                                    *)
RegexNewOk(pattern) == \A i \in 1..Len(pattern) : pattern[i] # "("

RECURSIVE RegexMatchAt(_, _, _, _)
RegexMatchAt(pattern, i, value, pos) ==
    IF i > Len(pattern) THEN TRUE
    ELSE IF pattern[i] = "^" THEN pos = 0 /\ RegexMatchAt(pattern, i+1, value, pos)
    ELSE IF pattern[i] = "$" THEN pos = Len(value) /\ RegexMatchAt(pattern, i+1, value, pos)
    ELSE pos < Len(value) /\ value[pos+1] = pattern[i]
         /\ RegexMatchAt(pattern, i+1, value, pos+1)

\* Regex::is_match: search semantics, a match may start anywhere
RegexIsMatch(pattern, value) ==
    \E start \in 0..Len(value) : RegexMatchAt(pattern, 1, value, start)

---------------------------------------------------------------------------
(* MatchField *)
MatchFields == {"Class", "InitialClass", "Title", "InitialTitle", "Tag", "XdgTag"}

S_class         == <<"c","l","a","s","s">>
S_c             == <<"c">>
S_initial_class == <<"i","n","i","t","i","a","l","-","c","l","a","s","s">>
S_initialClass  == <<"i","n","i","t","i","a","l","C","l","a","s","s">>
S_title         == <<"t","i","t","l","e">>
S_initial_title == <<"i","n","i","t","i","a","l","-","t","i","t","l","e">>
S_initialTitle  == <<"i","n","i","t","i","a","l","T","i","t","l","e">>
S_tag           == <<"t","a","g">>
S_xdgtag        == <<"x","d","g","t","a","g">>
S_xdg_tag       == <<"x","d","g","-","t","a","g">>
S_xdgTag        == <<"x","d","g","T","a","g">>

\* MatchField::parse
MatchFieldParse(raw) ==
    IF raw \in {S_class, S_c} THEN Some("Class")
    ELSE IF raw \in {S_initial_class, S_initialClass} THEN Some("InitialClass")
    ELSE IF raw = S_title THEN Some("Title")
    ELSE IF raw \in {S_initial_title, S_initialTitle} THEN Some("InitialTitle")
    ELSE IF raw = S_tag THEN Some("Tag")
    ELSE IF raw \in {S_xdgtag, S_xdg_tag, S_xdgTag} THEN Some("XdgTag")
    ELSE None

\* MatchField::value: class is a String, the other five are Option<String>
MatchFieldValue(field, client) ==
    CASE field = "Class"        -> Some(client.class)
      [] field = "InitialClass" -> client.initial_class
      [] field = "Title"        -> client.title
      [] field = "InitialTitle" -> client.initial_title
      [] field = "Tag"          -> client.tag
      [] field = "XdgTag"       -> client.xdg_tag

---------------------------------------------------------------------------
(* Matcher *)
Methods == {"Equals", "Contains", "Prefix", "Suffix", "Regex"}

S_equals      == <<"e","q","u","a","l","s">>
S_eq          == <<"e","q">>
S_contains    == <<"c","o","n","t","a","i","n","s">>
S_substr      == <<"s","u","b","s","t","r">>
S_prefix      == <<"p","r","e","f","i","x">>
S_starts_with == <<"s","t","a","r","t","s","-","w","i","t","h">>
S_startswith  == <<"s","t","a","r","t","s","w","i","t","h">>
S_suffix      == <<"s","u","f","f","i","x">>
S_ends_with   == <<"e","n","d","s","-","w","i","t","h">>
S_endswith    == <<"e","n","d","s","w","i","t","h">>
S_regex       == <<"r","e","g","e","x">>
S_re          == <<"r","e">>

Matcher(method, pattern) == [method |-> method, pattern |-> pattern]

\* Matcher::from_tokens
MatcherFromTokens(methodTok, pattern) ==
    LET method == IF IsSome(methodTok) THEN Unwrap(methodTok) ELSE S_equals
    IN  IF method \in {S_equals, S_eq} THEN Ok(Matcher("Equals", pattern))
        ELSE IF method \in {S_contains, S_substr} THEN Ok(Matcher("Contains", pattern))
        ELSE IF method \in {S_prefix, S_starts_with, S_startswith}
             THEN Ok(Matcher("Prefix", pattern))
        ELSE IF method \in {S_suffix, S_ends_with, S_endswith}
             THEN Ok(Matcher("Suffix", pattern))
        ELSE IF method \in {S_regex, S_re}
             THEN IF RegexNewOk(pattern) THEN Ok(Matcher("Regex", pattern))
                  ELSE Err("InvalidRegex", pattern)
        ELSE Err("UnsupportedMethod", method)

\* Matcher::matches
MatcherMatches(matcher, value) ==
    CASE matcher.method = "Equals"   -> value = matcher.pattern
      [] matcher.method = "Contains" -> Contains(value, matcher.pattern)
      [] matcher.method = "Prefix"   -> StartsWith(value, matcher.pattern)
      [] matcher.method = "Suffix"   -> EndsWith(value, matcher.pattern)
      [] matcher.method = "Regex"    -> RegexIsMatch(matcher.pattern, value)

---------------------------------------------------------------------------
(* MatchCondition *)
MatchCondition(field, matcher) == [field |-> field, matcher |-> matcher]

\* MatchCondition::matches with unwrap_or(true)
ConditionMatchesAbsentTrue(cond, client) ==
    LET value == MatchFieldValue(cond.field, client)
    IN  IF IsSome(value) THEN MatcherMatches(cond.matcher, Unwrap(value)) ELSE TRUE

\* MatchCondition::matches: value(client).map(matcher.matches).unwrap_or(false)
ConditionMatches(cond, client) ==
    LET value == MatchFieldValue(cond.field, client)
    IN  IF IsSome(value) THEN MatcherMatches(cond.matcher, Unwrap(value)) ELSE FALSE

\* matchers.iter().all(|matcher| matcher.matches(client))
AllMatch(conds, client) ==
    \A k \in 1..Len(conds) : ConditionMatches(conds[k], client)

\* parse_match_condition building the matcher before it resolves the field
ParseMatchConditionMatcherFirst(value) ==
    LET eq == SplitOnce(value, "=")
    IN  IF ~IsSome(eq) THEN Err("ExpectedMatcherForm", NoAlias)
        ELSE
        LET selector == Unwrap(eq)[1]
            pattern  == Unwrap(eq)[2]
        IN  IF pattern = <<>> THEN Err("EmptyPattern", NoAlias)
            ELSE
            LET colon       == SplitOnce(selector, ":")
                fieldToken  == IF IsSome(colon) THEN Unwrap(colon)[1] ELSE selector
                methodToken == IF IsSome(colon) THEN Some(Unwrap(colon)[2]) ELSE None
                matcher     == MatcherFromTokens(methodToken, pattern)
                field       == MatchFieldParse(fieldToken)
            IN  IF ~matcher.ok THEN matcher
                ELSE IF ~IsSome(field) THEN Err("UnsupportedField", fieldToken)
                ELSE Ok(MatchCondition(Unwrap(field), matcher.val))

\* parse_match_condition
ParseMatchCondition(value) ==
    LET eq == SplitOnce(value, "=")
    IN  IF ~IsSome(eq) THEN Err("ExpectedMatcherForm", NoAlias)
        ELSE
        LET selector == Unwrap(eq)[1]
            pattern  == Unwrap(eq)[2]
        IN  IF pattern = <<>> THEN Err("EmptyPattern", NoAlias)
            ELSE
            LET colon       == SplitOnce(selector, ":")
                fieldToken  == IF IsSome(colon) THEN Unwrap(colon)[1] ELSE selector
                methodToken == IF IsSome(colon) THEN Some(Unwrap(colon)[2]) ELSE None
                field       == MatchFieldParse(fieldToken)
            IN  IF ~IsSome(field) THEN Err("UnsupportedField", fieldToken)
                ELSE
                LET matcher == MatcherFromTokens(methodToken, pattern)
                IN  IF ~matcher.ok THEN matcher
                    ELSE Ok(MatchCondition(Unwrap(field), matcher.val))

---------------------------------------------------------------------------
(* Client: one window record of hyprctl's JSON.  An address is an opaque   *)
(* string that the program only compares and passes on; it is a number.    *)
Client(address, class, initial_class, title, initial_title, tag, xdg_tag) ==
    [address |-> address, class |-> class, initial_class |-> initial_class,
     title |-> title, initial_title |-> initial_title, tag |-> tag,
     xdg_tag |-> xdg_tag]

\* build_matchers without the is_empty check
BuildMatchersNoCheck(class, matches) ==
    Ok((IF IsSome(class)
        THEN <<MatchCondition("Class", Matcher("Equals", Unwrap(class)))>>
        ELSE <<>>) \o matches)

\* Args::build_matchers
BuildMatchers(class, matches) ==
    LET shorthand == IF IsSome(class)
                     THEN <<MatchCondition("Class", Matcher("Equals", Unwrap(class)))>>
                     ELSE <<>>
        built     == shorthand \o matches
    IN  IF built = <<>> THEN Err("NoMatchers", NoAlias) ELSE Ok(built)

\* clients.iter().filter(|client| matchers.iter().all(..)).collect()
RECURSIVE FilterCandidates(_, _)
FilterCandidates(clients, conds) ==
    IF clients = <<>> THEN <<>>
    ELSE (IF AllMatch(conds, Head(clients)) THEN <<Head(clients)>> ELSE <<>>)
         \o FilterCandidates(Tail(clients), conds)

\* get_current_matching_window that returns the focused window unchecked
CurrentMatchingWindowUnchecked(conds, out) ==
    IF ~out.spawned THEN Err("Io", NoAlias)
    ELSE IF out.stdout = "NonUtf8" THEN Err("Utf8", NoAlias)
    ELSE IF out.stdout = "BadJson" THEN Err("Json", NoAlias)
    ELSE Ok(out.client)

\* get_current_matching_window with iter().any in place of iter().all
CurrentMatchingWindowAny(conds, out) ==
    IF ~out.spawned THEN Err("Io", NoAlias)
    ELSE IF out.stdout = "NonUtf8" THEN Err("Utf8", NoAlias)
    ELSE IF out.stdout = "BadJson" THEN Err("Json", NoAlias)
    ELSE IF \E k \in 1..Len(conds) : ConditionMatches(conds[k], out.client)
         THEN Ok(out.client)
    ELSE Err("CurrentDoesNotMatch", NoAlias)

\* get_current_matching_window, after the query: out is what hyprctl gave
CurrentMatchingWindow(conds, out) ==
    IF ~out.spawned THEN Err("Io", NoAlias)
    ELSE IF out.stdout = "NonUtf8" THEN Err("Utf8", NoAlias)
    ELSE IF out.stdout = "BadJson" THEN Err("Json", NoAlias)
    ELSE IF AllMatch(conds, out.client) THEN Ok(out.client)
    ELSE Err("CurrentDoesNotMatch", NoAlias)

\* candidates.iter().position(|client| client.address == address), 0-based
Position(cands, address) ==
    IF \E i \in 1..Len(cands) : cands[i].address = address
    THEN Some((CHOOSE i \in 1..Len(cands) :
                  /\ cands[i].address = address
                  /\ \A j \in 1..(i-1) : cands[j].address # address) - 1)
    ELSE None

\* cycle().skip(index) in place of skip(index + 1)
CycleSkipNextOffByOne(cands, n) ==
    IF cands = <<>> THEN None ELSE Some(cands[((n - 1) % Len(cands)) + 1])

\* candidates.iter().cycle().skip(n).next()
CycleSkipNext(cands, n) ==
    IF cands = <<>> THEN None ELSE Some(cands[(n % Len(cands)) + 1])

NoAction      == [kind |-> "none",   address |-> 0]
FocusOn(a)    == [kind |-> "focus",  address |-> a]
LaunchAction  == [kind |-> "launch", address |-> 0]

\* the selection without the cycle: raise the first candidate or launch
SelectAlwaysRaiseFirst(cands, cur) ==
    IF cands # <<>> THEN FocusOn(cands[1].address) ELSE LaunchAction

\* the selection with the not-found case falling into the raise-first arm
SelectNotFoundRaisesFirst(cands, cur) ==
    LET index == IF cur.ok THEN Position(cands, cur.val.address) ELSE None
    IN  IF IsSome(index)
        THEN FocusOn(Unwrap(CycleSkipNext(cands, Unwrap(index) + 1)).address)
        ELSE IF cands # <<>> THEN FocusOn(cands[1].address)
        ELSE LaunchAction

\* main, lines 227-244: the action the selection dispatches
Select(cands, cur) ==
    IF cur.ok
    THEN LET index == Position(cands, cur.val.address)
         IN  IF IsSome(index)
             THEN LET next == CycleSkipNext(cands, Unwrap(index) + 1)
                  IN  IF IsSome(next) THEN FocusOn(Unwrap(next).address) ELSE NoAction
             ELSE NoAction
    ELSE IF cands # <<>> THEN FocusOn(cands[1].address)
    ELSE LaunchAction

---------------------------------------------------------------------------
(* Inputs of one invocation *)
S_a == <<"a">>
S_b == <<"b">>

\* raw --match values: title=a, c:re=^b, then one of each configuration error
RawTitleA     == S_title \o <<"=">> \o S_a
RawClassReB   == S_c \o <<":">> \o S_re \o <<"=", "^", "b">>
RawNoEquals   == S_c
RawEmpty      == S_c \o <<"=">>
RawBadField   == <<"z","z","=","a">>
RawBadMethod  == S_c \o <<":","z","z","=","a">>
RawBadRegex   == S_c \o <<":">> \o S_re \o <<"=", "(">>
RawPool == {RawTitleA, RawClassReB, RawNoEquals, RawEmpty, RawBadField,
            RawBadMethod, RawBadRegex}

LaunchCmd == <<"a","p","p">>

SeqsUpTo(S, n) == UNION {[1..k -> S] : k \in 0..n}

ArgsPool ==
    {[class |-> c, launch |-> LaunchCmd, matches |-> ms] :
        c \in {None, Some(S_a)}, ms \in SeqsUpTo(RawPool, MaxMatches)}

\* window attributes the snapshots draw from: class a or b, title absent or a
AttrPool == {[class |-> c, title |-> t] : c \in {S_a, S_b}, t \in {None, Some(S_a)}}
MkClient(address, attr) ==
    Client(address, attr.class, None, attr.title, None, None, None)

\* list snapshots: addresses are unique within a snapshot; window k has address k
WindowListsOver(pool, n) ==
    UNION {{[k \in 1..len |-> MkClient(k, f[k])] : f \in [1..len -> pool]}
           : len \in 0..n}
WindowLists(n) == WindowListsOver(AttrPool, n)

NoStdout == "None"
ClientsOutcomes ==
    {[spawned |-> FALSE, success |-> FALSE, stdout |-> NoStdout, list |-> <<>>]}
    \cup {[spawned |-> TRUE, success |-> s, stdout |-> k, list |-> <<>>] :
            s \in BOOLEAN, k \in {"NonUtf8", "BadJson"}}
    \cup {[spawned |-> TRUE, success |-> TRUE, stdout |-> "Json", list |-> l] :
            l \in WindowLists(MaxWindows)}
    \cup {[spawned |-> TRUE, success |-> FALSE, stdout |-> "Json", list |-> l] :
            l \in WindowLists(1)}

\* focus snapshots: any window, also one the list snapshot does not hold
NoClient == MkClient(0, [class |-> <<>>, title |-> None])
ActiveOutcomes ==
    {[spawned |-> FALSE, stdout |-> NoStdout, client |-> NoClient]}
    \cup {[spawned |-> TRUE, stdout |-> k, client |-> NoClient] :
            k \in {"NonUtf8", "BadJson"}}
    \cup {[spawned |-> TRUE, stdout |-> "Json", client |-> MkClient(a, attr)] :
            a \in 1..(MaxWindows + 1), attr \in AttrPool}

---------------------------------------------------------------------------
(* One invocation of main *)
Running      == [status |-> "running", kind |-> "", text |-> NoAlias]
ExitOk       == [status |-> "ok",      kind |-> "", text |-> NoAlias]
ExitErr(k,t) == [status |-> "error",   kind |-> k,  text |-> t]

NotQueried   == [spawned |-> FALSE, success |-> FALSE, stdout |-> "NotRun", list |-> <<>>]
NotAsked     == [spawned |-> FALSE, stdout |-> "NotRun", client |-> NoClient]
NoCurrent    == Err("NotRun", NoAlias)

Event(op, address, spawned) == [op |-> op, address |-> address, spawned |-> spawned]

ParseIdle ==
    /\ p_field = <<>> /\ p_method = None /\ p_pattern = <<>> /\ p_raw = <<>>
    /\ p_result = Err("NotRun", NoAlias)
MatchIdle ==
    /\ m_conds = <<>> /\ m_client = NoClient /\ m_each = <<>> /\ m_all = FALSE
    /\ m_done = FALSE
CycleIdle ==
    /\ w_windows = <<>> /\ w_matchers = <<>> /\ w_focused = 0 /\ w_hist = <<>>
    /\ w_runs = 0
MainIdle ==
    /\ pc = "idle"
    /\ args = [class |-> None, launch |-> LaunchCmd, matches |-> <<>>]
    /\ parsed = <<>> /\ matchers = <<>> /\ clientsOut = NotQueried
    /\ candidates = <<>> /\ activeOut = NotAsked /\ current = NoCurrent
    /\ events = <<>> /\ exit = Running

Init ==
    /\ pc = "args"
    /\ args \in ArgsPool
    /\ parsed = <<>> /\ matchers = <<>> /\ clientsOut = NotQueried
    /\ candidates = <<>> /\ activeOut = NotAsked /\ current = NoCurrent
    /\ events = <<>> /\ exit = Running
    /\ ParseIdle /\ MatchIdle /\ CycleIdle

\* the results of parse_match_condition on each --match value, in order
ParseAll(raws) == [k \in 1..Len(raws) |-> ParseMatchCondition(raws[k])]

\* argh::from_env (line 207): every --match value goes through
\* parse_match_condition; the first error ends the process
ParseArgs ==
    /\ pc = "args"
    /\ LET results == ParseAll(args.matches)
           bad     == {k \in 1..Len(results) : ~results[k].ok}
       IN  IF bad # {}
           THEN LET k == CHOOSE x \in bad : \A y \in bad : x <= y
                IN  /\ exit' = ExitErr(results[k].kind, results[k].text)
                    /\ pc' = "exit"
                    /\ parsed' = parsed
           ELSE /\ parsed' = [k \in 1..Len(results) |-> results[k].val]
                /\ pc' = "build"
                /\ exit' = exit
    /\ UNCHANGED <<args, matchers, clientsOut, candidates, activeOut, current, events>>
    /\ UNCHANGED <<parseVars, matchVars, cycleVars>>

\* let matchers = args.build_matchers()?;  (line 209)
BuildStep ==
    /\ pc = "build"
    /\ LET built == BuildMatchers(args.class, parsed)
       IN  IF built.ok
           THEN /\ matchers' = built.val /\ pc' = "clients" /\ exit' = exit
           ELSE /\ matchers' = matchers /\ pc' = "exit"
                /\ exit' = ExitErr(built.kind, built.text)
    /\ UNCHANGED <<args, parsed, clientsOut, candidates, activeOut, current, events>>
    /\ UNCHANGED <<parseVars, matchVars, cycleVars>>

\* the decoding errors sent to the `_` arm instead of `?`
ClientsRouteParseFallsBack(out) ==
    IF out.spawned /\ out.success /\ out.stdout = "Json"
    THEN [to |-> "select", kind |-> ""]
    ELSE [to |-> "fallback", kind |-> ""]

\* lines 213-219 and 247: what main does with the output of `hyprctl clients -j`:
\* "fallback" (the `_` arm), "error" (a `?` on the decoding) or "select"
ClientsRoute(out) ==
    IF out.spawned /\ out.success
    THEN IF out.stdout = "NonUtf8" THEN [to |-> "error", kind |-> "ClientsUtf8"]
         ELSE IF out.stdout = "BadJson" THEN [to |-> "error", kind |-> "ClientsJson"]
         ELSE [to |-> "select", kind |-> ""]
    ELSE [to |-> "fallback", kind |-> ""]

\* lines 212-225: run `hyprctl clients -j`, decode it, filter it
QueryClients ==
    /\ pc = "clients"
    /\ \E out \in ClientsOutcomes :
        /\ clientsOut' = out
        /\ events' = Append(events, Event("clients", 0, out.spawned))
        /\ LET route == ClientsRoute(out)
           IN  CASE route.to = "error" ->
                      /\ pc' = "exit" /\ exit' = ExitErr(route.kind, NoAlias)
                      /\ candidates' = candidates
                 [] route.to = "select" ->
                      /\ candidates' = FilterCandidates(out.list, matchers)
                      /\ pc' = "active" /\ exit' = exit
                 [] route.to = "fallback" ->
                      /\ pc' = "fallback" /\ exit' = exit /\ candidates' = candidates
    /\ UNCHANGED <<args, parsed, matchers, activeOut, current>>
    /\ UNCHANGED <<parseVars, matchVars, cycleVars>>

\* the `_` arm running on into the selection after its launch
LaunchFallbackFallsThrough ==
    /\ pc = "fallback"
    /\ \E spawned \in BOOLEAN :
        /\ events' = Append(events, Event("launch", 0, spawned))
        /\ exit' = exit
    /\ pc' = "active"
    /\ UNCHANGED <<args, parsed, matchers, clientsOut, candidates, activeOut, current>>
    /\ UNCHANGED <<parseVars, matchVars, cycleVars>>

\* lines 247-249: launch_command(&args)?
LaunchFallback ==
    /\ pc = "fallback"
    /\ \E spawned \in BOOLEAN :
        /\ events' = Append(events, Event("launch", 0, spawned))
        /\ exit' = IF spawned THEN ExitOk ELSE ExitErr("Spawn", NoAlias)
    /\ pc' = "exit"
    /\ UNCHANGED <<args, parsed, matchers, clientsOut, candidates, activeOut, current>>
    /\ UNCHANGED <<parseVars, matchVars, cycleVars>>

\* line 228: get_current_matching_window(&matchers)
QueryActive ==
    /\ pc = "active"
    /\ \E out \in ActiveOutcomes :
        /\ activeOut' = out
        /\ events' = Append(events, Event("activewindow", 0, out.spawned))
        /\ current' = CurrentMatchingWindow(matchers, out)
    /\ pc' = "dispatch"
    /\ UNCHANGED <<args, parsed, matchers, clientsOut, candidates, exit>>
    /\ UNCHANGED <<parseVars, matchVars, cycleVars>>

\* lines 228-244: focus_window(..)? or launch_command(..)? or nothing
Dispatch ==
    /\ pc = "dispatch"
    /\ LET action == Select(candidates, current)
       IN  IF action.kind = "none"
           THEN /\ events' = events /\ exit' = ExitOk
           ELSE \E spawned \in BOOLEAN :
                /\ events' = Append(events, Event(action.kind, action.address, spawned))
                /\ exit' = IF spawned THEN ExitOk ELSE ExitErr("Spawn", NoAlias)
    /\ pc' = "exit"
    /\ UNCHANGED <<args, parsed, matchers, clientsOut, candidates, activeOut, current>>
    /\ UNCHANGED <<parseVars, matchVars, cycleVars>>

Next ==
    \/ ParseArgs
    \/ BuildStep
    \/ QueryClients
    \/ LaunchFallback
    \/ QueryActive
    \/ Dispatch

Spec == Init /\ [][Next]_vars

---------------------------------------------------------------------------
(* parse_match_condition applied to one input `field[:method]=pattern`     *)
S_ab == <<"a","b">>

FieldAliases ==
    {S_class, S_c, S_initial_class, S_initialClass, S_title, S_initial_title,
     S_initialTitle, S_tag, S_xdgtag, S_xdg_tag, S_xdgTag}
MethodAliases ==
    {S_equals, S_eq, S_contains, S_substr, S_prefix, S_starts_with, S_startswith,
     S_suffix, S_ends_with, S_endswith, S_regex, S_re}

\* unknown aliases: another word, another case, a trailing blank, nothing
FieldTokens  == FieldAliases \cup {<<"z","z">>, <<"C","l","a","s","s">>, <<"c"," ">>, <<>>}
MethodTokens == MethodAliases \cup {<<"z","z">>, <<"E","Q">>, <<"r","e"," ">>, <<>>}
\* patterns: empty, plain, invalid regex text, regex, holding a separator
PatternTexts == {<<>>, S_a, <<"(">>, <<"^","a">>, <<"a","=","b">>, <<"a",":","b">>}

Join(fieldTok, methodTok, pattern) ==
    fieldTok \o (IF IsSome(methodTok) THEN <<":">> \o Unwrap(methodTok) ELSE <<>>)
             \o <<"=">> \o pattern

InitParse ==
    /\ p_field \in FieldTokens
    /\ p_method \in {None} \cup {Some(m) : m \in MethodTokens}
    /\ p_pattern \in PatternTexts
    /\ p_raw = Join(p_field, p_method, p_pattern)
    /\ p_result = Err("NotRun", NoAlias)
    /\ MainIdle /\ MatchIdle /\ CycleIdle

ParseStep ==
    /\ p_result.kind = "NotRun"
    /\ p_result' = ParseMatchCondition(p_raw)
    /\ UNCHANGED <<p_field, p_method, p_pattern, p_raw>>
    /\ UNCHANGED <<mainVars, matchVars, cycleVars>>

NextParse == ParseStep

SpecParse == InitParse /\ [][NextParse]_vars

---------------------------------------------------------------------------
(* MatchCondition::matches and the candidate filter applied to one window  *)
OptValues == {None, Some(<<>>), Some(S_ab)}
ClientPool ==
    {Client(1, c, ic, t, it, tg, xt) :
        c \in {<<>>, S_ab}, ic \in OptValues, t \in OptValues, it \in OptValues,
        tg \in OptValues, xt \in OptValues}

\* conditions as parse_match_condition admits them: non-empty patterns,
\* regexes that compile ("^$" matches the empty string)
CondPool ==
    {MatchCondition(f, Matcher(m, pt)) :
        f \in MatchFields, m \in {"Equals", "Contains", "Prefix", "Suffix"},
        pt \in {S_a, S_ab}}
    \cup {MatchCondition(f, Matcher("Regex", pt)) :
            f \in MatchFields, pt \in {<<"^","$">>, <<"b">>}}
SecondConds ==
    {MatchCondition("Class", Matcher("Prefix", S_a)),
     MatchCondition("Tag", Matcher("Regex", <<"^","$">>))}

InitMatch ==
    /\ m_conds \in {<<c>> : c \in CondPool}
                   \cup {<<c, d>> : c \in CondPool, d \in SecondConds}
    /\ m_client \in ClientPool
    /\ m_each = <<>> /\ m_all = FALSE /\ m_done = FALSE
    /\ MainIdle /\ ParseIdle /\ CycleIdle

Evaluate ==
    /\ ~m_done
    /\ m_each' = [k \in 1..Len(m_conds) |-> ConditionMatches(m_conds[k], m_client)]
    /\ m_all'  = (FilterCandidates(<<m_client>>, m_conds) = <<m_client>>)
    /\ m_done' = TRUE
    /\ UNCHANGED <<m_conds, m_client>>
    /\ UNCHANGED <<mainVars, parseVars, cycleVars>>

NextMatch == Evaluate

SpecMatch == InitMatch /\ [][NextMatch]_vars

---------------------------------------------------------------------------
(* Repeated invocations against one window manager: the window list does   *)
(* not change, both queries succeed, every focus action takes effect       *)
(* before the next invocation, and the invocations keep coming.            *)
HistLen == MaxWindows + 1

CycleMatchers ==
    {<<MatchCondition("Class", Matcher("Equals", S_a))>>,
     <<MatchCondition("Class", Matcher("Regex", <<"^","b">>))>>}
\* the windows here differ in class only: candidates and others, in any order
CycleAttrs == {[class |-> c, title |-> None] : c \in {S_a, S_b}}

InitCycle ==
    /\ w_matchers \in CycleMatchers
    /\ w_windows \in WindowListsOver(CycleAttrs, MaxWindows)
    /\ FilterCandidates(w_windows, w_matchers) # <<>>
    /\ w_focused \in 1..Len(w_windows)
    /\ w_hist = <<>> /\ w_runs = 0
    /\ MainIdle /\ ParseIdle /\ MatchIdle

LastN(seq, n) == IF Len(seq) <= n THEN seq ELSE SubSeq(seq, Len(seq) - n + 1, Len(seq))

\* one whole invocation of main (lines 212-253) on the window manager's state;
\* window k has address k, so the focused window is w_windows[w_focused]
Invoke ==
    /\ LET cands  == FilterCandidates(w_windows, w_matchers)
           out    == [spawned |-> TRUE, stdout |-> "Json",
                      client |-> w_windows[w_focused]]
           cur    == CurrentMatchingWindow(w_matchers, out)
           action == Select(cands, cur)
       IN  /\ w_hist' = LastN(Append(w_hist, action), HistLen)
           /\ w_focused' = IF action.kind = "focus" THEN action.address
                           ELSE w_focused
    /\ w_runs' = IF w_runs <= HistLen THEN w_runs + 1 ELSE w_runs
    /\ UNCHANGED <<w_windows, w_matchers>>
    /\ UNCHANGED <<mainVars, parseVars, matchVars>>

NextCycle == Invoke

SpecCycle == InitCycle /\ [][NextCycle]_vars /\ WF_vars(Invoke)

---------------------------------------------------------------------------
(* What the claims speak of, stated on the recorded snapshots and the      *)
(* recorded hyprctl runs rather than on main's intermediate values.        *)

IsAction(e)   == e.op \in {"focus", "launch"}
Issued        == SelectSeq(events, IsAction)
Queries(op)   == SelectSeq(events, LAMBDA e : e.op = op)
IssuedKinds   == [k \in 1..Len(Issued) |-> [kind |-> Issued[k].op,
                                            address |-> Issued[k].address]]
Finished      == pc = "exit"

\* the window-list query succeeded: spawned, exit status 0, decodable
ListOk        == clientsOut.spawned /\ clientsOut.success /\ clientsOut.stdout = "Json"
\* the collaborator could not be reached
ListUnreachable == clientsOut.stdout # "NotRun"
                   /\ (~clientsOut.spawned \/ ~clientsOut.success)
\* the collaborator answered with something that does not decode
ListUnparseable == clientsOut.spawned /\ clientsOut.stdout \in {"NonUtf8", "BadJson"}

Satisfies(w)  == \A k \in 1..Len(matchers) : ConditionMatches(matchers[k], w)
\* the windows of the list satisfying every condition, in list order
Cands         == SelectSeq(clientsOut.list, Satisfies)
CandAddrs     == {Cands[i].address : i \in 1..Len(Cands)}

FocusAsked    == activeOut.stdout # "NotRun"
FocusOk       == activeOut.spawned /\ activeOut.stdout = "Json"
\* F is present: the focus query succeeded and the window satisfies every condition
FPresent      == ListOk /\ FocusOk /\ Satisfies(activeOut.client)
FAbsent       == ListOk /\ FocusAsked /\ ~(FocusOk /\ Satisfies(activeOut.client))
FIndex        == CHOOSE i \in 1..Len(Cands) : Cands[i].address = activeOut.client.address
FFound        == FPresent /\ activeOut.client.address \in CandAddrs

\* C1: with the list query succeeding, F present and found at (1-based) index
\* i of the candidates, the invocation never issues launch and, once it has
\* ended, has issued exactly one action: focus on the candidate after i,
\* wrapping from the last candidate to the first.
C1_CycleNext ==
    FFound =>
        /\ \A k \in 1..Len(events) : events[k].op # "launch"
        /\ Finished =>
             IssuedKinds = <<FocusOn(Cands[(FIndex % Len(Cands)) + 1].address)>>

C1_Witness ==
    /\ Finished /\ FFound /\ Len(Cands) = 3 /\ FIndex = 3
    /\ IssuedKinds = <<FocusOn(Cands[1].address)>>

\* C2: with the list query succeeding and F absent (the focus query failed, or
\* the focused window fails a condition), the ended invocation has issued
\* exactly one action: focus on the first candidate if there is one, launch
\* otherwise; a non-matching focused window is never the cycle anchor.
C2_RaiseFirstOrLaunch ==
    (FAbsent /\ Finished) =>
        IssuedKinds = IF Cands # <<>> THEN <<FocusOn(Cands[1].address)>>
                      ELSE <<LaunchAction>>

C2_Witness ==
    /\ Finished /\ FAbsent /\ FocusOk /\ Len(Cands) >= 2
    /\ activeOut.client.address = Cands[1].address
    /\ IssuedKinds = <<FocusOn(Cands[1].address)>>

\* the outcome the spec gives to a failed window-list query
LaunchedOnly ==
    /\ IssuedKinds = <<LaunchAction>>
    /\ Queries("activewindow") = <<>>
    /\ \/ exit = ExitOk
       \/ exit = ExitErr("Spawn", NoAlias) /\ ~Issued[1].spawned

C4_RaceNoAction ==
    (FPresent /\ ~FFound) =>
        /\ Issued = <<>>
        /\ Finished => exit = ExitOk

C4_Witness ==
    /\ Finished /\ FPresent /\ ~FFound /\ Cands # <<>>
    /\ Issued = <<>> /\ exit = ExitOk

ConfigKinds == {"ExpectedMatcherForm", "UnsupportedField", "UnsupportedMethod",
                "EmptyPattern", "InvalidRegex", "NoMatchers"}
\* the command line holds a configuration error
Malformed(raw) == ~ParseMatchCondition(raw).ok
ConfigError ==
    \/ \E k \in 1..Len(args.matches) : Malformed(args.matches[k])
    \/ ~IsSome(args.class) /\ args.matches = <<>>

\* C6: an invocation whose command line holds a configuration error never
\* runs hyprctl (no query, no action) and ends with an error of a
\* configuration kind; and an invocation ended by such an error ran nothing.
C6_ConfigErrorBeforeQueries ==
    /\ ConfigError =>
          /\ events = <<>>
          /\ Finished => (exit.status = "error" /\ exit.kind \in ConfigKinds)
    /\ (Finished /\ exit.kind \in ConfigKinds) => events = <<>>

C6_Witness ==
    /\ Finished /\ ~IsSome(args.class) /\ args.matches = <<>>
    /\ exit = ExitErr("NoMatchers", NoAlias) /\ events = <<>>

\* C7: at most one action (focus or launch) is dispatched in an invocation.
C7_AtMostOneAction == Len(Issued) <= 1

C7_Witness ==
    /\ Finished /\ FFound /\ Len(Issued) = 1 /\ Issued[1].op = "focus"

\* the selection under the simplified rule: F is present iff the focus query
\* succeeds and the focused window's address is a candidate's
SimplifiedAction ==
    IF FocusOk /\ activeOut.client.address \in CandAddrs
    THEN FocusOn(Cands[(FIndex % Len(Cands)) + 1].address)
    ELSE IF Cands # <<>> THEN FocusOn(Cands[1].address)
    ELSE LaunchAction
IssuedAction == IF Issued = <<>> THEN NoAction ELSE IssuedKinds[1]
\* the focus snapshot agrees with the list snapshot
SnapshotsAgree ==
    ~FocusOk \/ \E i \in 1..Len(clientsOut.list) : clientsOut.list[i] = activeOut.client

\* C10 as stated: for every list snapshot, condition set and focus snapshot
\* the invocation issues the action the simplified rule selects.
C10_AlwaysEquivalent ==
    (Finished /\ ListOk /\ FocusAsked) => IssuedAction = SimplifiedAction

\* C10 amended: the invocation issues the action the simplified rule selects
\* whenever the focus query fails or returns a record equal to an entry of the
\* window list (whose addresses are unique).
C10_EquivalentWhenSnapshotsAgree ==
    (Finished /\ ListOk /\ FocusAsked /\ SnapshotsAgree) =>
        IssuedAction = SimplifiedAction

C10_Witness ==
    /\ Finished /\ ListOk /\ FocusOk /\ SnapshotsAgree
    /\ ~Satisfies(activeOut.client) /\ Cands # <<>>
    /\ IssuedAction = SimplifiedAction /\ IssuedAction = FocusOn(Cands[1].address)

\* C8 as stated: an unknown field alias always gives the `Unsupported match
\* field` error naming it, and an unknown method alias after a recognised
\* field always gives the `Unsupported match method` error naming it, for
\* every pattern, the empty one included.
FieldUnknown  == p_field \notin FieldAliases
MethodUnknown == IsSome(p_method) /\ Unwrap(p_method) \notin MethodAliases
Parsed        == p_result.kind # "NotRun"
AliasErrors ==
    /\ FieldUnknown => p_result = Err("UnsupportedField", p_field)
    /\ (~FieldUnknown /\ MethodUnknown) =>
          p_result = Err("UnsupportedMethod", Unwrap(p_method))

C8_AliasErrorsForEveryPattern == Parsed => AliasErrors

\* C8 amended: the two alias errors are given for every non-empty pattern,
\* valid or not; with an empty pattern parsing fails with `Matcher pattern
\* cannot be empty`, whatever the aliases.
C8_AliasErrorsForNonEmptyPattern ==
    Parsed =>
        /\ p_pattern # <<>> => AliasErrors
        /\ p_pattern = <<>> => p_result = Err("EmptyPattern", NoAlias)

C8_Witness ==
    /\ Parsed /\ FieldUnknown /\ p_method = Some(S_re) /\ p_pattern = <<"(">>
    /\ p_result = Err("UnsupportedField", p_field)

\* the selected field of a window, absent or present with its value
Selected(field, w) ==
    IF field = "Class" THEN Some(w.class)
    ELSE IF field = "InitialClass" THEN w.initial_class
    ELSE IF field = "Title" THEN w.title
    ELSE IF field = "InitialTitle" THEN w.initial_title
    ELSE IF field = "Tag" THEN w.tag
    ELSE w.xdg_tag

\* window w with field g set to x (class is never absent)
WithField(w, g, x) ==
    IF g = "Class" THEN (IF IsSome(x) THEN [w EXCEPT !.class = Unwrap(x)] ELSE w)
    ELSE IF g = "InitialClass" THEN [w EXCEPT !.initial_class = x]
    ELSE IF g = "Title" THEN [w EXCEPT !.title = x]
    ELSE IF g = "InitialTitle" THEN [w EXCEPT !.initial_title = x]
    ELSE IF g = "Tag" THEN [w EXCEPT !.tag = x]
    ELSE [w EXCEPT !.xdg_tag = x]
\* the windows that differ from w in one field other than f
OthersChanged(w, f) == {WithField(w, g, x) : g \in MatchFields \ {f}, x \in OptValues}

\* C9: a condition is true on a window iff the selected field is present and
\* the method holds on its value; a condition on an absent field is false for
\* every method; changing any other field of the window leaves the result
\* as it is; the window is a candidate iff every condition is true on it.
C9_MatchSemantics ==
    m_done =>
        /\ \A k \in 1..Len(m_conds) :
             LET v == Selected(m_conds[k].field, m_client)
             IN  /\ ~IsSome(v) => ~m_each[k]
                 /\ IsSome(v) => m_each[k] = MatcherMatches(m_conds[k].matcher, Unwrap(v))
                 /\ \A w \in OthersChanged(m_client, m_conds[k].field) :
                      ConditionMatches(m_conds[k], w) = m_each[k]
        /\ m_all = (\A k \in 1..Len(m_conds) : m_each[k])

C9_Witness ==
    /\ m_done /\ Len(m_conds) = 2
    /\ m_conds[2] = MatchCondition("Tag", Matcher("Regex", <<"^","$">>))
    /\ m_client.tag = None /\ m_each[1] /\ ~m_each[2] /\ ~m_all

\* the candidates of the unchanging window list, and the one after address a
CycleCands == SelectSeq(w_windows, LAMBDA w : AllMatch(w_matchers, w))
CycleAddrs == {CycleCands[i].address : i \in 1..Len(CycleCands)}
CycleIndex(a) == CHOOSE i \in 1..Len(CycleCands) : CycleCands[i].address = a
CycleAfter(a) == CycleCands[(CycleIndex(a) % Len(CycleCands)) + 1].address

\* every invocation so far focused a candidate (none launched), each one the
\* candidate after the one before it, so that every run of n invocations
\* focused each of the n candidates exactly once
CycleOrder ==
    /\ \A k \in 1..Len(w_hist) :
         w_hist[k].kind = "focus" /\ w_hist[k].address \in CycleAddrs
    /\ \A k \in 1..(Len(w_hist) - 1) :
         w_hist[k+1].address = CycleAfter(w_hist[k].address)
    /\ \A s \in 1..Len(w_hist) :
         LET n == Len(CycleCands)
         IN  s + n - 1 <= Len(w_hist) =>
               /\ {w_hist[k].address : k \in s..(s + n - 1)} = CycleAddrs
               /\ \A j, k \in s..(s + n - 1) :
                    w_hist[j].address = w_hist[k].address => j = k
    /\ w_runs >= 1 => w_focused = w_hist[Len(w_hist)].address

\* C5: under repeated invocation with an unchanged list of n >= 1 candidates,
\* no invocation launches, every run of n invocations (the first invocation
\* included) focuses every candidate exactly once in list order with
\* wrap-around, and every candidate is focused again and again.
C5_CycleProgress ==
    /\ []CycleOrder
    /\ \A a \in 1..(MaxWindows + 1) :
         []<>(a \in CycleAddrs => (w_runs >= 1 /\ w_focused = a))

C5_Witness ==
    /\ Len(CycleCands) = 3 /\ Len(w_hist) = 4
    /\ w_hist[1].address = CycleCands[3].address
    /\ w_hist[2].address = CycleCands[1].address
    /\ w_hist[4].address = CycleCands[3].address

===========================================================================
